---- MODULE Spec2Model ----
(***************************************************************************)
(* Model of find_trna_syn_genes.py: the EnsemblAPI wrapper, the driver     *)
(* search_trna_synthetases and main.  Python values that may be None are   *)
(* modelled as sequences of length at most one: None is <<>>, a value v is *)
(* <<v>>.  Gene symbols are sequences of one-character strings, so that    *)
(* Python's substring test `a in b` is computed and not assumed.           *)
(***************************************************************************)
EXTENDS Integers, Sequences, FiniteSets, TLC

VARIABLES pc, i, genes, j, response, gene_info, all_genes, df, csv, out,
          trace, origin

vars == <<pc, i, genes, j, response, gene_info, all_genes, df, csv, out,
          trace, origin>>

----------------------------------------------------------------------------
(* Bounds of the model *)

NumPatterns == 2
MaxXrefs == 2
MaxLookups == 3

----------------------------------------------------------------------------
(* Python values *)

None == <<>>
Some(v) == <<v>>

patterns ==
    << 
       <<"A","A","R","S","1">>, <<"A","A","R","S","2">>, <<"C","A","R","S","1">>,
       <<"C","A","R","S","2">>, <<"D","A","R","S","1">>, <<"D","A","R","S","2">>,
       <<"E","A","R","S","2">>, <<"E","P","R","S","1">>, <<"F","A","R","S","A">>,
       <<"F","A","R","S","B">>, <<"F","A","R","S","2">>, <<"G","A","R","S","1">>,
       <<"H","A","R","S","1">>, <<"H","A","R","S","2">>, <<"I","A","R","S","1">>,
       <<"I","A","R","S","2">>, <<"K","A","R","S","1">>, <<"L","A","R","S","1">>,
       <<"L","A","R","S","2">>, <<"M","A","R","S","1">>, <<"M","A","R","S","2">>,
       <<"N","A","R","S","1">>, <<"N","A","R","S","2">>, <<"P","A","R","S","2">>,
       <<"Q","A","R","S","1">>, <<"R","A","R","S","1">>, <<"R","A","R","S","2">>,
       <<"S","A","R","S","1">>, <<"S","A","R","S","2">>, <<"T","A","R","S","1">>,
       <<"T","A","R","S","2">>, <<"V","A","R","S","1">>, <<"V","A","R","S","2">>,
       <<"W","A","R","S","1">>, <<"W","A","R","S","2">>, <<"Y","A","R","S","1">>,
       <<"Y","A","R","S","2">>
    >>

\* `for pattern in patterns`, cut to the first NumPatterns patterns
Patterns == SubSeq(patterns, 1, NumPatterns)

\* Python `sub in s` for two strings
StrIn(sub, s) ==
    \E k \in 0..(Len(s) - Len(sub)) : SubSeq(s, k + 1, k + Len(sub)) = sub

\* [str(i) for i in range(1,23)] + ['X', 'Y', 'MT']
StandardChromosomes == [k \in 1..22 |-> ToString(k)] \o <<"X", "Y", "MT">>

\* `chromosome in [...]`: list membership by ==, None equals no string
ChromosomeMutantOpen(chromosome) ==
    \/ chromosome = None
    \/ /\ chromosome # None
       /\ \E k \in DOMAIN StandardChromosomes : StandardChromosomes[k] = chromosome[1]

IsStandardChromosome(chromosome) ==
    /\ chromosome # None
    /\ \E k \in DOMAIN StandardChromosomes : StandardChromosomes[k] = chromosome[1]

\* `pattern in gene_info.get('display_name')`, display_name a string
SymbolMutantReversed(pattern, display_name) == StrIn(display_name, pattern)

SymbolMatches(pattern, display_name) == StrIn(pattern, display_name)

\* truth value of a list or None
TruthyList(x) == x # None /\ Len(x[1]) > 0

DictFields == {"id", "display_name", "description", "seq_region_name",
               "start", "end", "strand", "biotype", "error"}

\* truth value of a dict or None: a dict is true iff it has a key
TruthyDict(x) == x # None /\ \E f \in DictFields : x[1][f] # None

\* dict.get(key)
Get(d, key) == d[key]

----------------------------------------------------------------------------
(* The remote service: sample responses *)

AARS1 == <<"A","A","R","S","1">>
AARS1P1 == <<"A","A","R","S","1","P","1">>
AARS2 == <<"A","A","R","S","2">>
AARS == <<"A","A","R","S">>

EmptyDict == [f \in DictFields |-> None]

ErrorBody == [EmptyDict EXCEPT !["error"] = Some("ID not found")]

Coding(id, name, chr) ==
    [EmptyDict EXCEPT !["id"] = id, !["display_name"] = name,
                      !["seq_region_name"] = chr,
                      !["description"] = Some("alanyl-tRNA synthetase 1"),
                      !["start"] = Some(70318116), !["end"] = Some(70322688),
                      !["strand"] = Some(1),
                      !["biotype"] = Some("protein_coding")]

Pseudo(id, name, chr) ==
    [EmptyDict EXCEPT !["id"] = id, !["display_name"] = name,
                      !["seq_region_name"] = chr,
                      !["start"] = Some(100), !["end"] = Some(200),
                      !["strand"] = Some(0 - 1),
                      !["biotype"] = Some("processed_pseudogene")]

GeneInfos ==
    { Coding(Some("ENSG0001"), Some(AARS1), Some("16")),
      Pseudo(Some("ENSG0001"), Some(AARS1P1), Some("16")),
      Coding(Some("ENSG0002"), Some(AARS2), Some("X")),
      Pseudo(Some("ENSG0001"), Some(AARS2), Some("MT")),
      Coding(Some("ENSG0002"), Some(AARS1), Some("16_random_scaffold")),
      Coding(Some("ENSG0001"), None, Some("16")),
      Coding(Some("ENSG0002"), Some(AARS1), None),
      Pseudo(None, Some(AARS1), Some("1")),
      Coding(Some("ENSG0002"), Some(AARS), Some("2")),
      EmptyDict }

XrefIds == {"ENSG0001", "ENSG0002"}

Xrefs == [id : XrefIds]

XrefLists(n) == UNION { [1..k -> Xrefs] : k \in 0..n }

FailedResponse == [ok |-> FALSE, json |-> ErrorBody]

NumLookups(t) == Cardinality({k \in DOMAIN t : t[k].op = "lookup"})

\* responses of GET /xrefs/symbol/{species}/{query}
SearchResponses(t) ==
    {FailedResponse} \cup
    { [ok |-> TRUE, json |-> l] :
        l \in { x \in XrefLists(MaxXrefs) : NumLookups(t) + Len(x) <= MaxLookups } }

\* responses of GET /lookup/id/{gene_id}?expand=1
LookupResponses ==
    {FailedResponse} \cup { [ok |-> TRUE, json |-> g] : g \in GeneInfos }

----------------------------------------------------------------------------
(* EnsemblAPI *)

search_genes(resp) == IF resp.ok THEN Some(resp.json) ELSE None

get_gene_info_unchecked(resp) == Some(resp.json)

get_gene_info(resp) == IF resp.ok THEN Some(resp.json) ELSE None

----------------------------------------------------------------------------
(* search_trna_synthetases *)

GeneRecordSwapped(info, chromosome) ==
    [gene_id |-> Get(info, "id"),
     symbol |-> Get(info, "display_name"),
     description |-> Get(info, "description"),
     chromosome |-> chromosome,
     start |-> Get(info, "end"),
     end |-> Get(info, "start"),
     strand |-> Get(info, "strand"),
     biotype |-> Get(info, "biotype")]

GeneRecord(info, chromosome) ==
    [gene_id |-> Get(info, "id"),
     symbol |-> Get(info, "display_name"),
     description |-> Get(info, "description"),
     chromosome |-> chromosome,
     start |-> Get(info, "start"),
     end |-> Get(info, "end"),
     strand |-> Get(info, "strand"),
     biotype |-> Get(info, "biotype")]

\* `for gene in genes`: the j-th cross-reference, in the order returned
CurrentGene(g, k) == g[1][k]

Event(op, pat, id, ret) == [op |-> op, pat |-> pat, id |-> id, ret |-> ret]

\* time.sleep(0.1)
DelayOmitted(t, pat) == t

Delay(t, pat) == Append(t, Event("sleep", pat, "", None))

RECURSIVE Duplicated(_, _, _)
\* DataFrame.duplicated(subset=['gene_id'], keep='first'): one pass that
\* marks a row whose gene_id was seen in an earlier row
Duplicated(rows, k, seen) ==
    IF k > Len(rows) THEN <<>>
    ELSE <<rows[k].gene_id \in seen>>
         \o Duplicated(rows, k + 1, seen \cup {rows[k].gene_id})

RECURSIVE Unmarked(_, _, _)
Unmarked(rows, marks, k) ==
    IF k > Len(rows) THEN <<>>
    ELSE (IF marks[k] THEN <<>> ELSE <<rows[k]>>) \o Unmarked(rows, marks, k + 1)

RECURSIVE DuplicatedLast(_, _, _)
DuplicatedLast(rows, k, seen) ==
    IF k < 1 THEN <<>>
    ELSE DuplicatedLast(rows, k - 1, seen \cup {rows[k].gene_id})
         \o <<rows[k].gene_id \in seen>>

drop_duplicates_keep_last(rows) ==
    Unmarked(rows, DuplicatedLast(rows, Len(rows), {}), 1)

\* df.drop_duplicates(subset=['gene_id'])
drop_duplicates(rows) == Unmarked(rows, Duplicated(rows, 1, {}), 1)

AssembleAlways(rows) == Some(drop_duplicates(rows))

\* lines 110-116: the returned table, or None for an empty accumulator
Assemble(rows) == IF Len(rows) > 0 THEN Some(drop_duplicates(rows)) ELSE None

Init ==
    /\ pc = "search"
    /\ i = 1
    /\ genes = None
    /\ j = 0
    /\ response = None
    /\ gene_info = None
    /\ all_genes = <<>>
    /\ df = None
    /\ csv = <<>>
    /\ out = "none"
    /\ trace = <<>>
    /\ origin = <<>>

\* the `for pattern in patterns` loop moves to the next pattern or ends
NextPattern ==
    /\ i' = i + 1
    /\ pc' = IF i + 1 <= Len(Patterns) THEN "search" ELSE "assemble"

\* lines 82-87: one iteration head, Searching for {pattern}
Search ==
    /\ pc = "search"
    /\ \E resp \in SearchResponses(trace) :
         /\ response' = Some(resp)
         /\ genes' = search_genes(resp)
         /\ trace' = Append(trace, Event("search", i, "", search_genes(resp)))
         /\ IF TruthyList(search_genes(resp))
            THEN /\ j' = 1
                 /\ pc' = "lookup"
                 /\ i' = i
            ELSE /\ j' = j
                 /\ NextPattern
    /\ UNCHANGED <<gene_info, all_genes, df, csv, out, origin>>

\* lines 89-105: look one cross-reference up and filter it
Lookup ==
    /\ pc = "lookup"
    /\ \E resp \in LookupResponses :
         LET info == get_gene_info(resp)
             id == Get(CurrentGene(genes, j), "id")
             t == Append(trace, Event("lookup", i, id, None))
         IN /\ response' = Some(resp)
            /\ gene_info' = info
            /\ trace' = t
            /\ IF ~TruthyDict(info)
               THEN /\ pc' = "sleep"
                    /\ UNCHANGED <<all_genes, origin>>
               ELSE LET chromosome == Get(info[1], "seq_region_name")
                        display_name == Get(info[1], "display_name")
                    IN IF display_name = None
                       THEN \* TypeError: argument of type 'NoneType' is not iterable
                            /\ pc' = "error"
                            /\ UNCHANGED <<all_genes, origin>>
                       ELSE /\ pc' = "sleep"
                            /\ IF /\ SymbolMatches(Patterns[i], display_name[1])
                                  /\ IsStandardChromosome(chromosome)
                               THEN /\ all_genes' = Append(all_genes,
                                                       GeneRecord(info[1], chromosome))
                                    /\ origin' = Append(origin,
                                                   [pat |-> i, at |-> Len(t)])
                               ELSE UNCHANGED <<all_genes, origin>>
    /\ UNCHANGED <<i, genes, j, df, csv, out>>

\* line 108 and the step of the `for gene in genes` loop
Sleep ==
    /\ pc = "sleep"
    /\ trace' = Delay(trace, i)
    /\ IF j < Len(genes[1])
       THEN /\ j' = j + 1
            /\ pc' = "lookup"
            /\ i' = i
       ELSE /\ j' = j
            /\ NextPattern
    /\ UNCHANGED <<genes, response, gene_info, all_genes, df, csv, out, origin>>

\* lines 110-116
Dedup ==
    /\ pc = "assemble"
    /\ df' = Assemble(all_genes)
    /\ pc' = "main"
    /\ UNCHANGED <<i, genes, j, response, gene_info, all_genes, csv, out,
                   trace, origin>>

\* lines 120-132
Main ==
    /\ pc = "main"
    /\ IF df # None
       THEN /\ out' = "summary"
            /\ csv' = Append(csv, df[1])
       ELSE /\ out' = "no_results"
            /\ csv' = csv
    /\ pc' = "done"
    /\ UNCHANGED <<i, genes, j, response, gene_info, all_genes, df, trace,
                   origin>>

Next == Search \/ Lookup \/ Sleep \/ Dedup \/ Main

Spec == Init /\ [][Next]_vars

----------------------------------------------------------------------------
(* Definitions used by the properties *)

CanonicalChromosomes ==
    {"1", "2", "3", "4", "5", "6", "7", "8", "9", "10", "11", "12", "13",
     "14", "15", "16", "17", "18", "19", "20", "21", "22", "X", "Y", "MT"}

IsCanonical(chromosome) ==
    chromosome # None /\ chromosome[1] \in CanonicalChromosomes

\* sub occurs in s at some offset a
IsSubstring(sub, s) ==
    \E a \in 0..Len(s) :
        /\ a + Len(sub) <= Len(s)
        /\ \A n \in 1..Len(sub) : s[a + n] = sub[n]

Finished == pc \in {"assemble", "main", "done"}

Returned == pc \in {"main", "done"}

\* the traversal is over, by the end of the loop or by an exception
Stopped == Finished \/ pc = "error"

LastOp == IF trace = <<>> THEN "none" ELSE trace[Len(trace)].op

\* the lookup that was issued last has appended a record
JustAppended ==
    /\ origin # <<>>
    /\ origin[Len(origin)].at = Len(trace)

\* a lookup has just been answered with a dict and processed
AfterSuccessfulLookup ==
    /\ pc \in {"sleep", "error"}
    /\ response # None /\ response[1].ok
    /\ gene_info # None

\* indices of the rows whose gene_id occurs in no earlier row
FirstIdx(rows) ==
    {k \in DOMAIN rows : \A m \in 1..(k - 1) : rows[m].gene_id # rows[k].gene_id}

\* the n-th smallest element of a set of indices
Nth(S, n) == CHOOSE k \in S : Cardinality({m \in S : m < k}) = n - 1

FirstOccurrences(rows) ==
    [n \in 1..Cardinality(FirstIdx(rows)) |-> rows[Nth(FirstIdx(rows), n)]]

SearchAt(n) == CHOOSE k \in DOMAIN trace : trace[k].op = "search" /\ trace[k].pat = n

NumSearches == Cardinality({k \in DOMAIN trace : trace[k].op = "search"})

\* ids looked up under pattern n, in the order the lookups were issued
RECURSIVE LookupIds(_, _)
LookupIds(n, k) ==
    IF k > Len(trace) THEN <<>>
    ELSE (IF trace[k].op = "lookup" /\ trace[k].pat = n THEN <<trace[k].id>> ELSE <<>>)
         \o LookupIds(n, k + 1)

\* ids of the cross-references a search returned, in the order returned
ReturnedIds(ret) == IF ret = None THEN <<>> ELSE [k \in DOMAIN ret[1] |-> ret[1][k].id]

IsPrefix(a, b) == Len(a) <= Len(b) /\ SubSeq(b, 1, Len(a)) = a

NumSleeps(n) == Cardinality({k \in DOMAIN trace : trace[k].op = "sleep" /\ trace[k].pat = n})

----------------------------------------------------------------------------
(* C1: every record of the accumulator and every row of the returned and   *)
(* written table has a chromosome in {"1",...,"22","X","Y","MT"}, and a    *)
(* lookup whose seq_region_name is absent or any other value leaves the    *)
(* accumulator as it was.                                                  *)
C1_ChromosomeCanonical ==
    /\ [](/\ \A k \in DOMAIN all_genes : IsCanonical(all_genes[k].chromosome)
          /\ df # None => \A k \in DOMAIN df[1] : IsCanonical(df[1][k].chromosome)
          /\ \A c \in DOMAIN csv :
                \A k \in DOMAIN csv[c] : IsCanonical(csv[c][k].chromosome))
    /\ [][(/\ pc = "lookup"
           /\ gene_info' # None
           /\ ~IsCanonical(gene_info'[1]["seq_region_name"]))
          => all_genes' = all_genes]_vars

C1_Witness ==
    /\ pc = "sleep"
    /\ gene_info # None
    /\ gene_info[1]["seq_region_name"] = Some("16_random_scaffold")
    /\ gene_info[1]["display_name"] = Some(Patterns[i])
    /\ Len(all_genes) > 0

(* C2: the pattern under which a row was appended is a substring of the    *)
(* row's symbol, for the accumulator and for the returned table; a lookup  *)
(* whose display_name contains the pattern without being equal to it, on a *)
(* canonical chromosome, is appended.                                      *)
C2_PatternInSymbol ==
    /\ Len(origin) = Len(all_genes)
    /\ \A k \in DOMAIN all_genes :
          /\ all_genes[k].symbol # None
          /\ IsSubstring(Patterns[origin[k].pat], all_genes[k].symbol[1])
    /\ df # None =>
          \A n \in DOMAIN df[1] :
             \E k \in DOMAIN all_genes :
                /\ all_genes[k] = df[1][n]
                /\ IsSubstring(Patterns[origin[k].pat], df[1][n].symbol[1])
    /\ (/\ AfterSuccessfulLookup
        /\ gene_info[1]["display_name"] # None
        /\ gene_info[1]["display_name"][1] # Patterns[i]
        /\ IsSubstring(Patterns[i], gene_info[1]["display_name"][1])
        /\ IsCanonical(gene_info[1]["seq_region_name"]))
       => /\ JustAppended
          /\ all_genes[Len(all_genes)].symbol = gene_info[1]["display_name"]

C2_Witness ==
    /\ Returned
    /\ df # None
    /\ \E n \in DOMAIN df[1] : df[1][n].symbol = Some(AARS1P1)
    /\ \E k \in DOMAIN all_genes :
          all_genes[k].symbol = Some(AARS1P1) /\ Patterns[origin[k].pat] = AARS1

(* C3: the returned table is the accumulator restricted to the first       *)
(* occurrence of each gene_id, in the accumulator's order; no two of its   *)
(* rows share a gene_id; deduplicating it again changes nothing.           *)
C3_DedupFirstOccurrence ==
    (Returned /\ all_genes # <<>>) =>
       /\ df # None
       /\ df[1] = FirstOccurrences(all_genes)
       /\ \A a, b \in DOMAIN df[1] : a # b => df[1][a].gene_id # df[1][b].gene_id
       /\ drop_duplicates(df[1]) = df[1]
       /\ \A c \in DOMAIN csv : csv[c] = df[1]

C3_Witness ==
    /\ pc = "done"
    /\ df # None
    /\ Len(df[1]) >= 2
    /\ Len(all_genes) > Len(df[1])
    /\ \E a, b \in DOMAIN all_genes :
          /\ a < b
          /\ all_genes[a].gene_id = all_genes[b].gene_id
          /\ all_genes[a] # all_genes[b]
          /\ origin[a].pat # origin[b].pat

(* C4: a successful lookup without display_name is excluded by the filter, *)
(* enters no error state and the driver goes on (to the pacing delay).     *)
C4_MissingDisplayNameExcluded ==
    (/\ LastOp = "lookup"
     /\ response # None /\ response[1].ok
     /\ TruthyDict(gene_info)
     /\ gene_info[1]["display_name"] = None)
    => /\ pc = "sleep"
       /\ ~JustAppended

(* C5: a failed search or lookup gives a null result and no exception; a   *)
(* null search issues no lookups and adds no records, a null lookup adds   *)
(* no records, and the driver goes on with the next cross-reference or     *)
(* pattern.                                                                *)
C5_FailuresAreSkipped ==
    /\ [][/\ (pc = "search" /\ ~response'[1].ok) =>
                /\ genes' = None
                /\ all_genes' = all_genes
                /\ i' = i + 1
                /\ pc' \in {"search", "assemble"}
          /\ (pc = "lookup" /\ ~response'[1].ok) =>
                /\ gene_info' = None
                /\ all_genes' = all_genes
                /\ pc' = "sleep"
          /\ (pc = "sleep" /\ gene_info = None) =>
                /\ all_genes' = all_genes
                /\ pc' = (IF j < Len(genes[1]) THEN "lookup"
                          ELSE IF i < Len(Patterns) THEN "search" ELSE "assemble")]_vars
    /\ [](\A k \in DOMAIN trace :
             (trace[k].op = "search" /\ trace[k].ret = None) =>
                /\ LookupIds(trace[k].pat, 1) = <<>>
                /\ k < Len(trace) => trace[k + 1].op = "search")

C5_Witness ==
    /\ pc = "lookup"
    /\ j = 2
    /\ gene_info = None
    /\ response = Some(FailedResponse)
    /\ \E k \in DOMAIN trace :
          trace[k].op = "search" /\ trace[k].ret = None /\ k < Len(trace)

(* C6: no response of the service makes the run abort part-way.            *)
C6_NeverAborts == pc # "error"

(* C7: the CSV file is written at most once, only by main after the last   *)
(* pattern, and at the end it has been written iff the accumulator is not  *)
(* empty; if every search returned null nothing is written and the outcome *)
(* is the no-results message.                                              *)
C7_CsvIffNonEmpty ==
    /\ Len(csv) <= 1
    /\ csv # <<>> =>
          /\ pc = "done"
          /\ i > Len(Patterns)
          /\ NumSearches = Len(Patterns)
          /\ all_genes # <<>>
          /\ out = "summary"
    /\ pc = "done" =>
          /\ (csv # <<>>) <=> (all_genes # <<>>)
          /\ (out = "no_results") <=> (all_genes = <<>>)
          /\ (\A k \in DOMAIN trace : trace[k].op = "search" => trace[k].ret = None)
             => (df = None /\ csv = <<>> /\ out = "no_results")

C7_Witness ==
    /\ pc = "done"
    /\ Len(csv) = 1
    /\ \E k \in DOMAIN trace : trace[k].op = "search" /\ trace[k].ret = None

C9_ProgramOrder ==
    /\ \A k \in DOMAIN trace :
          /\ trace[k].pat \in 1..Len(Patterns)
          /\ k = 1 => (trace[k].op = "search" /\ trace[k].pat = 1)
          /\ k > 1 =>
                IF trace[k].op = "search"
                THEN trace[k].pat = trace[k - 1].pat + 1
                ELSE trace[k].pat = trace[k - 1].pat
    /\ \A n \in 1..NumSearches :
          IF n < NumSearches \/ Stopped
          THEN LookupIds(n, 1) = ReturnedIds(trace[SearchAt(n)].ret)
          ELSE IsPrefix(LookupIds(n, 1), ReturnedIds(trace[SearchAt(n)].ret))
    /\ Stopped => NumSearches = Len(Patterns)
    /\ Len(origin) = Len(all_genes)
    /\ \A k \in DOMAIN origin :
          /\ origin[k].at \in DOMAIN trace
          /\ trace[origin[k].at].op = "lookup"
          /\ trace[origin[k].at].pat = origin[k].pat
          /\ k > 1 => origin[k - 1].at < origin[k].at

(* C10: a successful lookup appends exactly one record, built from the     *)
(* fields of the lookup response, iff its display_name contains the        *)
(* current pattern and its seq_region_name is canonical, and none          *)
(* otherwise; no step changes or removes a record already accumulated.     *)
C10_AppendIffBothFilters ==
    [][/\ IsPrefix(all_genes, all_genes')
       /\ Len(all_genes') <= Len(all_genes) + 1
       /\ pc # "lookup" => all_genes' = all_genes
       /\ (pc = "lookup" /\ response'[1].ok) =>
             LET info == response'[1].json
             IN IF /\ info["display_name"] # None
                   /\ IsSubstring(Patterns[i], info["display_name"][1])
                   /\ IsCanonical(info["seq_region_name"])
                THEN all_genes' = Append(all_genes,
                        [gene_id |-> info["id"],
                         symbol |-> info["display_name"],
                         description |-> info["description"],
                         chromosome |-> info["seq_region_name"],
                         start |-> info["start"],
                         end |-> info["end"],
                         strand |-> info["strand"],
                         biotype |-> info["biotype"]])
                ELSE all_genes' = all_genes]_vars

C10_Witness ==
    /\ pc = "sleep"
    /\ JustAppended
    /\ Len(all_genes) >= 2
    /\ all_genes[Len(all_genes)].gene_id # Some(trace[Len(trace)].id)

====
